---------------------------- MODULE Spec2Model ----------------------------
(***************************************************************************)
(* Model of the `informal` crate (src/src/lib.rs): the Input<T> builder,   *)
(* the read-parse-validate loop of Input::try_get_with run over the        *)
(* production line source read_line, the wrappers get and map, and the     *)
(* confirm shortcuts.                                                      *)
(*                                                                         *)
(* Text is a sequence of string tokens whose concatenation is the Rust     *)
(* string.  Lines that are trimmed, parsed or lower-cased are written one  *)
(* character per token.  Option<X> is <<>> (None) or <<x>> (Some(x)).      *)
(***************************************************************************)
EXTENDS Integers, Sequences, FiniteSets, TLC

VARIABLES
    T,          \* the target type of Input<T>: "u32" or "String"
    self,       \* the Input<T> under construction / consumed by resolution
    called,     \* names of the builder methods called on self so far
    lastcall,   \* the last builder call while configuring: method, argument,
                \* the Input it was called on, whether the method was called before
    pc,         \* "build": configuring; "loop": at the read_line call; "done"
    call,       \* the entry point in progress: "none", "try_get", "get", "map"
    mapfn,      \* the closure handed to map ("none" outside map)
    rendered,   \* the prompt rendered before the loop (Option<String>)
    out,        \* stdout: the sequence of writes made so far
    reads,      \* one entry per read_line call: its argument, event and result
    trace,      \* the prompt writes, stdin reads and messages, in order
    parses,     \* the trimmed strings str::parse was called on
    runs,       \* the values Validator::run was called on
    maps,       \* the values the map closure was called on
    result,     \* Option<io::Result<T>>: what try_get_with returned
    outcome     \* what the entry point gave its caller

vars == <<T, self, called, lastcall, pc, call, mapfn, rendered, out, reads, trace,
          parses, runs, maps, result, outcome>>

\* The number of read_line calls explored in one resolution.
MaxReads == 3

-----------------------------------------------------------------------------
(* Option and io::Result *)

None == <<>>
Some(x) == <<x>>

Ok(v) == [ok |-> TRUE, val |-> <<v>>, err |-> "none"]
Err(e) == [ok |-> FALSE, val |-> <<>>, err |-> e]

-----------------------------------------------------------------------------
(* Strings: str::trim and str::to_lowercase *)

IsWhitespace(c) == c \in {" ", "\t", "\n", "\r"}

RECURSIVE trim_start(_)
trim_start(s) ==
    IF s = <<>> THEN <<>>
    ELSE IF IsWhitespace(Head(s)) THEN trim_start(Tail(s))
    ELSE s

RECURSIVE trim_end(_)
trim_end(s) ==
    IF s = <<>> THEN <<>>
    ELSE IF IsWhitespace(s[Len(s)]) THEN trim_end(SubSeq(s, 1, Len(s) - 1))
    ELSE s

trim(s) == trim_end(trim_start(s))

UpperCase == <<"A","B","C","D","E","F","G","H","I","J","K","L","M",
               "N","O","P","Q","R","S","T","U","V","W","X","Y","Z">>
LowerCase == <<"a","b","c","d","e","f","g","h","i","j","k","l","m",
               "n","o","p","q","r","s","t","u","v","w","x","y","z">>

char_to_lowercase(c) ==
    IF \E i \in 1..Len(UpperCase) : UpperCase[i] = c
    THEN LowerCase[CHOOSE i \in 1..Len(UpperCase) : UpperCase[i] = c]
    ELSE c

to_lowercase(s) == [i \in 1..Len(s) |-> char_to_lowercase(s[i])]

-----------------------------------------------------------------------------
(* FromStr: <u32 as FromStr>::from_str and <String as FromStr>::from_str *)

Digits == <<"0","1","2","3","4","5","6","7","8","9">>

IsDigit(c) == \E i \in 1..Len(Digits) : Digits[i] = c
DigitVal(c) == (CHOOSE i \in 1..Len(Digits) : Digits[i] = c) - 1

RECURSIVE DigitsValue(_, _)
DigitsValue(s, acc) ==
    IF s = <<>> THEN acc ELSE DigitsValue(Tail(s), acc * 10 + DigitVal(Head(s)))

RECURSIVE strip_zeros(_)
strip_zeros(s) ==
    IF s # <<>> /\ Head(s) = "0" THEN strip_zeros(Tail(s)) ELSE s

\* u32::MAX, 2^32 - 1, digit by digit.
U32MaxDigits == <<"4","2","9","4","9","6","7","2","9","5">>

RECURSIVE DigitsGreater(_, _)
\* For digit strings of equal length: a > b.
DigitsGreater(a, b) ==
    IF a = <<>> THEN FALSE
    ELSE IF DigitVal(Head(a)) # DigitVal(Head(b)) THEN DigitVal(Head(a)) > DigitVal(Head(b))
    ELSE DigitsGreater(Tail(a), Tail(b))

overflows_u32(body) ==
    LET d == strip_zeros(body) IN
    \/ Len(d) > Len(U32MaxDigits)
    \/ Len(d) = Len(U32MaxDigits) /\ DigitsGreater(d, U32MaxDigits)

u32_from_str(raw) ==
    IF raw = <<>> THEN Err("cannot parse integer from empty string")
    ELSE LET body == IF Head(raw) = "+" THEN Tail(raw) ELSE raw IN
         IF body = <<>> \/ \E i \in 1..Len(body) : ~IsDigit(body[i])
         THEN Err("invalid digit found in string")
         ELSE IF overflows_u32(body)
         THEN Err("number too large to fit in target type")
         ELSE Ok(DigitsValue(body, 0))

parse(ty, raw) == IF ty = "u32" THEN u32_from_str(raw) ELSE Ok(raw)

-----------------------------------------------------------------------------
(* The closures of the crate and of its documented uses *)

yes_no(s) == to_lowercase(trim(s)) \in {<<"n">>, <<"n","o">>, <<"y">>, <<"y","e","s">>}

\* Mutant of is_yes: the answer is compared without lower-casing it.
is_yes_case_sensitive(s) == s \in {<<"y">>, <<"y","e","s">>}

is_yes(s) == to_lowercase(s) \in {<<"y">>, <<"y","e","s">>}

Validator_run(validator, v) ==
    CASE validator = "lt120" -> v < 120
      [] validator = "even"  -> v % 2 = 0
      [] validator = "yes_no" -> yes_no(v)

apply_map(f, v) ==
    CASE f = "is_yes" -> is_yes(v)
      [] f = "is_even" -> v % 2 = 0

-----------------------------------------------------------------------------
(* The inputs explored *)

Types == {"u32", "String"}

PromptTexts == {<<"Enter your guess: ">>}
Prefixes == {<<"> ">>}
Suffixes == {<<" [y/N] ">>}
TypeMessages == {<<"Please enter a valid guess!">>}
ValidatorMessages == {<<"I asked a simple question...">>}

Defaults(ty) == IF ty = "u32" THEN {200} ELSE {<<"n">>}
Validators(ty) == IF ty = "u32" THEN {"lt120", "even"} ELSE {"yes_no"}
MapFns(ty) == IF ty = "u32" THEN {"is_even"} ELSE {"is_yes"}

Lines(ty) ==
    IF ty = "u32"
    THEN { <<"\n">>, <<"a","b","c","\n">>, <<"2","0","0","\n">>, <<"4","5","\n">> }
    ELSE { <<" ","\n">>, <<"y","\n">>, <<" ","Y","E","S"," ","\n">>, <<"N","o","\n">>,
           <<"m","a","y","b","e","\n">> }

\* What one read_line call meets: a line on stdin, end of input, an error
\* reading stdin, or an error writing or flushing the prompt on stdout.
StdEvents(ty) ==
    {[kind |-> "line", text |-> l] : l \in Lines(ty)}
    \cup {[kind |-> k, text |-> <<>>] : k \in {"eof", "read_err", "write_err", "flush_err"}}

-----------------------------------------------------------------------------
(* Input<T>: construction and the builder methods *)

\* Mutant of Input_new: no validator message is stored at construction.
Input_new_silent ==
    [ prompt |-> None, prefix |-> None, suffix |-> None, default |-> None,
      validator |-> None,
      type_message |-> Some(<<"Error: invalid input">>),
      validator_message |-> None ]

Input_new ==
    [ prompt |-> None, prefix |-> None, suffix |-> None, default |-> None,
      validator |-> None,
      type_message |-> Some(<<"Error: invalid input">>),
      validator_message |-> Some(<<"Error: does not pass validation">>) ]

Input_prompt(in, s) == [in EXCEPT !.prompt = Some(s)]
Input_prefix(in, s) == [in EXCEPT !.prefix = Some(s)]
\* Mutant of Input_suffix: the text is stored in the prefix field.
Input_suffix_sets_prefix(in, s) == [in EXCEPT !.prefix = Some(s)]

Input_suffix(in, s) == [in EXCEPT !.suffix = Some(s)]
Input_type_error_message(in, s) == [in EXCEPT !.type_message = Some(s)]
Input_validator_error_message(in, s) == [in EXCEPT !.validator_message = Some(s)]
Input_default(in, d) == [in EXCEPT !.default = Some(d)]
\* Mutant of Input_matches: a validator already set is kept.
Input_matches_keeps_first(in, f) ==
    IF in.validator = None THEN [in EXCEPT !.validator = Some(f)] ELSE in

Input_matches(in, f) == [in EXCEPT !.validator = Some(f)]

\* The free function prompt(text).
prompt(text) == Input_prompt(Input_new, text)


\* confirm(text): the Input it builds before calling map.
confirm_input(text) ==
    Input_matches(
        Input_default(Input_suffix(prompt(text), <<" [y/N] ">>), <<"n">>),
        "yes_no")

\* confirm_with_message(text, error_meesage): the Input it builds.
confirm_with_message_input(text, message) ==
    Input_matches(
        Input_validator_error_message(
            Input_default(Input_suffix(prompt(text), <<" [y/N] ">>), <<"n">>),
            message),
        "yes_no")

-----------------------------------------------------------------------------
(* try_get_with: the prologue, the line source and the messages *)

\* The prompt rendered once before the loop.
render(in) ==
    IF in.prompt = None THEN None
    ELSE Some( (IF in.prefix = None THEN <<>> ELSE in.prefix[1])
               \o in.prompt[1]
               \o (IF in.suffix = None THEN <<>> ELSE in.suffix[1]) )

\* Mutant of read_line: the line is read first and the prompt written after.
read_line_prompt_after_read(p, ev) ==
    [ wrote |-> IF p # None /\ ev.kind # "read_err" THEN <<p[1]>> ELSE <<>>,
      res   |-> IF ev.kind = "read_err" THEN Err(ev.kind)
                ELSE IF p # None /\ ev.kind \in {"write_err", "flush_err"} THEN Err(ev.kind)
                ELSE IF ev.kind = "eof" THEN Ok(<<>>)
                ELSE Ok(ev.text),
      events |-> <<"read">>
                 \o (IF p # None /\ ev.kind \notin {"read_err", "write_err"}
                     THEN <<"prompt">> ELSE <<>>) ]

\* read_line(prompt) meeting stdin/stdout event ev: its result, what it
\* wrote to stdout, and what it did in order (the prompt write, then the
\* stdin read).  Stdin's read_line at end of input is Ok with no bytes.
read_line(p, ev) ==
    [ wrote |-> IF p # None /\ ev.kind # "write_err" THEN <<p[1]>> ELSE <<>>,
      res   |-> IF p # None /\ ev.kind \in {"write_err", "flush_err"} THEN Err(ev.kind)
                ELSE IF ev.kind = "read_err" THEN Err(ev.kind)
                ELSE IF ev.kind = "eof" THEN Ok(<<>>)
                ELSE Ok(ev.text),
      events |-> (IF p # None /\ ev.kind # "write_err" THEN <<"prompt">> ELSE <<>>)
                 \o (IF p # None /\ ev.kind \in {"write_err", "flush_err"}
                     THEN <<>> ELSE <<"read">>) ]

\* println!("{}", s)
println(s) == <<s \o <<"\n">>>>

\* Mutant of type_error_text: the configured message is ignored and the
\* parse error's own text is always printed.
type_error_text_display(in, err) == <<"Error: ", err>>

\* What the Err(err) arm prints.
type_error_text(in, err) ==
    IF in.type_message = None THEN <<"Error: ", err>> ELSE in.type_message[1]

\* Mutant of validator_error_text: the caller's message is ignored and the
\* constructor's message is always printed.
validator_error_text_default(in) == Input_new.validator_message[1]

\* What the rejected arm prints.
validator_error_text(in) ==
    IF in.validator_message = None THEN <<>> ELSE in.validator_message[1]

\* Mutant of rejects: the negation of the validator's answer is lost.
rejects_inverted(in, v) == in.validator # None /\ Validator_run(in.validator[1], v)

\* The guard of the rejected arm: a validator is set and its run is false.
rejects(in, v) == in.validator # None /\ ~Validator_run(in.validator[1], v)

-----------------------------------------------------------------------------
(* get and map *)

Pending == [kind |-> "pending", val |-> <<>>, err |-> "none"]

\* Result::unwrap
unwrap(r) ==
    IF r.ok THEN [kind |-> "value", val |-> r.val, err |-> "none"]
    ELSE [kind |-> "panic", val |-> <<>>, err |-> r.err]

\* try_get: the io::Result itself is the caller's outcome.
Input_try_get(r) ==
    IF r.ok THEN [kind |-> "ok", val |-> r.val, err |-> "none"]
    ELSE [kind |-> "err", val |-> <<>>, err |-> r.err]

\* Mutant of Input_get: the io::Result is handed on instead of unwrapped.
Input_get_fallible(r) == Input_try_get(r)

Input_get(r) == unwrap(r)

Input_map(f, r) ==
    LET g == Input_get(r) IN
    IF g.kind = "value"
    THEN [kind |-> "value", val |-> <<apply_map(f, g.val[1])>>, err |-> "none"]
    ELSE g

\* The values the map closure is called on when the resolution gives r.
map_calls(c, r) == IF c = "map" /\ Input_get(r).kind = "value" THEN <<r.val[1]>> ELSE <<>>

Return(c, f, r) ==
    CASE c = "try_get" -> Input_try_get(r)
      [] c = "get" -> Input_get(r)
      [] c = "map" -> Input_map(f, r)

-----------------------------------------------------------------------------
(* The state machine *)

\* No builder call is on record: before the first, and once the Input is consumed.
NoCall == [name |-> "none", arg |-> None, before |-> Input_new, again |-> FALSE]

Init ==
    /\ T \in Types
    /\ self = Input_new
    /\ called = {}
    /\ lastcall = NoCall
    /\ pc = "build"
    /\ call = "none"
    /\ mapfn = "none"
    /\ rendered = None
    /\ out = <<>>
    /\ reads = <<>>
    /\ trace = <<>>
    /\ parses = <<>>
    /\ runs = <<>>
    /\ maps = <<>>
    /\ result = None
    /\ outcome = Pending

\* Builder method name called with argument arg: self becomes in.
Build(name, arg, in) ==
    /\ pc = "build"
    /\ self' = in
    /\ called' = called \cup {name}
    /\ lastcall' = [name |-> name, arg |-> Some(arg), before |-> self,
                    again |-> name \in called]
    /\ UNCHANGED <<T, pc, call, mapfn, rendered, out, reads, trace, parses, runs,
                   maps, result, outcome>>

CallPrompt == \E s \in PromptTexts : Build("prompt", s, Input_prompt(self, s))
CallPrefix == \E s \in Prefixes : Build("prefix", s, Input_prefix(self, s))
CallSuffix == \E s \in Suffixes : Build("suffix", s, Input_suffix(self, s))
CallTypeErrorMessage ==
    \E s \in TypeMessages :
        Build("type_error_message", s, Input_type_error_message(self, s))
CallValidatorErrorMessage ==
    \E s \in ValidatorMessages :
        Build("validator_error_message", s, Input_validator_error_message(self, s))
CallDefault == \E d \in Defaults(T) : Build("default", d, Input_default(self, d))
CallMatches == \E f \in Validators(T) : Build("matches", f, Input_matches(self, f))

\* Entering try_get_with through entry point c: the prompt is rendered and
\* control reaches the first read_line call.
Enter(c, f, in) ==
    /\ pc = "build"
    /\ pc' = "loop"
    /\ call' = c
    /\ mapfn' = f
    /\ self' = in
    /\ rendered' = render(in)
    /\ lastcall' = NoCall
    /\ UNCHANGED <<T, out, reads, trace, parses, runs, maps, result, outcome>>

TryGet == Enter("try_get", "none", self) /\ UNCHANGED called
Get == Enter("get", "none", self) /\ UNCHANGED called
Map == (\E f \in MapFns(T) : Enter("map", f, self)) /\ UNCHANGED called

Confirm ==
    /\ T = "String"
    /\ self = Input_new
    /\ called = {}
    /\ \E text \in PromptTexts : Enter("map", "is_yes", confirm_input(text))
    /\ called' = {"prompt", "suffix", "default", "matches"}

ConfirmWithMessage ==
    /\ T = "String"
    /\ self = Input_new
    /\ called = {}
    /\ \E text \in PromptTexts, message \in ValidatorMessages :
          Enter("map", "is_yes", confirm_with_message_input(text, message))
    /\ called' = {"prompt", "suffix", "default", "validator_error_message", "matches"}

\* Mutant of loop_prompt: a retry shows the bare prompt text, without the
\* prefix and the suffix.
loop_prompt_bare_on_retry == IF reads = <<>> THEN rendered ELSE self.prompt

\* The argument of the read_line call of the loop.
loop_prompt == rendered

\* Mutant of CanRead: the loop gives up after two reads.
CanRead_two_tries(ev) ==
    /\ pc = "loop"
    /\ Len(reads) < MaxReads
    /\ Len(reads) < 2
    /\ ev.kind \in {"write_err", "flush_err"} => loop_prompt # None

\* One read_line call of the loop, meeting event ev.
CanRead(ev) ==
    /\ pc = "loop"
    /\ Len(reads) < MaxReads
    /\ ev.kind \in {"write_err", "flush_err"} => loop_prompt # None

\* The events of attempt n: what read_line did, then one message per line
\* printed.
attempt_events(n, rl, printed) ==
    [i \in 1..Len(rl.events) |-> [e |-> rl.events[i], n |-> n]]
    \o [i \in 1..Len(printed) |-> [e |-> "message", n |-> n]]

Read(ev, printed) ==
    LET rl == read_line(loop_prompt, ev) IN
    /\ reads' = Append(reads, [prompt |-> loop_prompt, ev |-> ev, res |-> rl.res])
    /\ out' = out \o rl.wrote \o printed
    /\ trace' = trace \o attempt_events(Len(reads) + 1, rl, printed)

\* break / the ? operator: try_get_with returns r to the entry point.
Finish(r) ==
    /\ pc' = "done"
    /\ result' = Some(r)
    /\ outcome' = Return(call, mapfn, r)
    /\ maps' = maps \o map_calls(call, r)

\* continue
Continue ==
    /\ pc' = "loop"
    /\ UNCHANGED <<result, outcome, maps>>

\* Mutant of IoError: a failed read is taken for an empty line.
IoError_as_empty ==
    \E ev \in StdEvents(T) :
        LET rl == read_line(loop_prompt, ev) IN
        /\ CanRead(ev)
        /\ ~rl.res.ok
        /\ Read(ev, <<>>)
        /\ IF self.default # None THEN Finish(Ok(self.default[1])) ELSE Continue
        /\ UNCHANGED <<T, self, called, lastcall, call, mapfn, rendered, parses, runs>>

\* read_line(&prompt)? fails.
IoError ==
    \E ev \in StdEvents(T) :
        LET rl == read_line(loop_prompt, ev) IN
        /\ CanRead(ev)
        /\ ~rl.res.ok
        /\ Read(ev, <<>>)
        /\ Finish(Err(rl.res.err))
        /\ UNCHANGED <<T, self, called, lastcall, call, mapfn, rendered, parses, runs>>

\* Mutant of EmptyDefault: the default goes through the validator like a
\* parsed value.
EmptyDefault_validated ==
    \E ev \in StdEvents(T) :
        LET rl == read_line(loop_prompt, ev) IN
        /\ CanRead(ev)
        /\ rl.res.ok
        /\ trim(rl.res.val[1]) = <<>>
        /\ self.default # None
        /\ runs' = IF self.validator # None THEN Append(runs, self.default[1]) ELSE runs
        /\ IF rejects(self, self.default[1])
           THEN Read(ev, println(validator_error_text(self))) /\ Continue
           ELSE Read(ev, <<>>) /\ Finish(Ok(self.default[1]))
        /\ UNCHANGED <<T, self, called, lastcall, call, mapfn, rendered, parses>>

\* "" with a default: break default.
EmptyDefault ==
    \E ev \in StdEvents(T) :
        LET rl == read_line(loop_prompt, ev) IN
        /\ CanRead(ev)
        /\ rl.res.ok
        /\ trim(rl.res.val[1]) = <<>>
        /\ self.default # None
        /\ Read(ev, <<>>)
        /\ Finish(Ok(self.default[1]))
        /\ UNCHANGED <<T, self, called, lastcall, call, mapfn, rendered, parses, runs>>

\* Mutant of EmptyRetry: the empty line is handed to parse like any other
\* and answered with the type-error message.
EmptyRetry_as_parse_error ==
    \E ev \in StdEvents(T) :
        LET rl == read_line(loop_prompt, ev) IN
        /\ CanRead(ev)
        /\ rl.res.ok
        /\ trim(rl.res.val[1]) = <<>>
        /\ self.default = None
        /\ parses' = Append(parses, <<>>)
        /\ Read(ev, println(type_error_text(self, "cannot parse from empty string")))
        /\ Continue
        /\ UNCHANGED <<T, self, called, lastcall, call, mapfn, rendered, runs>>

\* "" without a default: continue.
EmptyRetry ==
    \E ev \in StdEvents(T) :
        LET rl == read_line(loop_prompt, ev) IN
        /\ CanRead(ev)
        /\ rl.res.ok
        /\ trim(rl.res.val[1]) = <<>>
        /\ self.default = None
        /\ Read(ev, <<>>)
        /\ Continue
        /\ UNCHANGED <<T, self, called, lastcall, call, mapfn, rendered, parses, runs>>

\* raw.parse() is Err(err): print the type message, continue.
ParseError ==
    \E ev \in StdEvents(T) :
        LET rl == read_line(loop_prompt, ev) IN
        /\ CanRead(ev)
        /\ rl.res.ok
        /\ LET raw == trim(rl.res.val[1])
               p == parse(T, raw) IN
           /\ raw # <<>>
           /\ ~p.ok
           /\ parses' = Append(parses, raw)
           /\ Read(ev, println(type_error_text(self, p.err)))
        /\ Continue
        /\ UNCHANGED <<T, self, called, lastcall, call, mapfn, rendered, runs>>

\* Mutant of Rejected: the continue after the message is missing, so the
\* rejected value falls through to break result.
Rejected_falls_through ==
    \E ev \in StdEvents(T) :
        LET rl == read_line(loop_prompt, ev) IN
        /\ CanRead(ev)
        /\ rl.res.ok
        /\ LET raw == trim(rl.res.val[1])
               p == parse(T, raw) IN
           /\ raw # <<>>
           /\ p.ok
           /\ rejects(self, p.val[1])
           /\ parses' = Append(parses, raw)
           /\ runs' = Append(runs, p.val[1])
           /\ Read(ev, println(validator_error_text(self)))
           /\ Finish(Ok(p.val[1]))
        /\ UNCHANGED <<T, self, called, lastcall, call, mapfn, rendered>>

\* raw.parse() is Ok(result) and the validator rejects it: print, continue.
Rejected ==
    \E ev \in StdEvents(T) :
        LET rl == read_line(loop_prompt, ev) IN
        /\ CanRead(ev)
        /\ rl.res.ok
        /\ LET raw == trim(rl.res.val[1])
               p == parse(T, raw) IN
           /\ raw # <<>>
           /\ p.ok
           /\ rejects(self, p.val[1])
           /\ parses' = Append(parses, raw)
           /\ runs' = Append(runs, p.val[1])
           /\ Read(ev, println(validator_error_text(self)))
        /\ Continue
        /\ UNCHANGED <<T, self, called, lastcall, call, mapfn, rendered>>

\* Mutant of Accepted: the validator is run a second time on the value
\* before it is returned.
Accepted_revalidates ==
    \E ev \in StdEvents(T) :
        LET rl == read_line(loop_prompt, ev) IN
        /\ CanRead(ev)
        /\ rl.res.ok
        /\ LET raw == trim(rl.res.val[1])
               p == parse(T, raw) IN
           /\ raw # <<>>
           /\ p.ok
           /\ ~rejects(self, p.val[1])
           /\ parses' = Append(parses, raw)
           /\ runs' = IF self.validator # None
                      THEN runs \o <<p.val[1], p.val[1]>> ELSE runs
           /\ Read(ev, <<>>)
           /\ Finish(Ok(p.val[1]))
        /\ UNCHANGED <<T, self, called, lastcall, call, mapfn, rendered>>

\* Mutant of Accepted: the line is parsed without being trimmed, so a String
\* keeps its surrounding whitespace and line end.
Accepted_untrimmed ==
    \E ev \in StdEvents(T) :
        LET rl == read_line(loop_prompt, ev) IN
        /\ CanRead(ev)
        /\ rl.res.ok
        /\ LET raw == trim(rl.res.val[1])
               p == parse(T, raw)
               q == IF parse(T, rl.res.val[1]).ok THEN parse(T, rl.res.val[1]) ELSE p IN
           /\ raw # <<>>
           /\ p.ok
           /\ ~rejects(self, p.val[1])
           /\ parses' = Append(parses, raw)
           /\ runs' = IF self.validator # None THEN Append(runs, p.val[1]) ELSE runs
           /\ Read(ev, <<>>)
           /\ Finish(Ok(q.val[1]))
        /\ UNCHANGED <<T, self, called, lastcall, call, mapfn, rendered>>

\* raw.parse() is Ok(result) and no validator rejects it: break result.
Accepted ==
    \E ev \in StdEvents(T) :
        LET rl == read_line(loop_prompt, ev) IN
        /\ CanRead(ev)
        /\ rl.res.ok
        /\ LET raw == trim(rl.res.val[1])
               p == parse(T, raw) IN
           /\ raw # <<>>
           /\ p.ok
           /\ ~rejects(self, p.val[1])
           /\ parses' = Append(parses, raw)
           /\ runs' = IF self.validator # None THEN Append(runs, p.val[1]) ELSE runs
           /\ Read(ev, <<>>)
           /\ Finish(Ok(p.val[1]))
        /\ UNCHANGED <<T, self, called, lastcall, call, mapfn, rendered>>

Next ==
    \/ CallPrompt \/ CallPrefix \/ CallSuffix
    \/ CallTypeErrorMessage \/ CallValidatorErrorMessage
    \/ CallDefault \/ CallMatches
    \/ TryGet \/ Get \/ Map \/ Confirm \/ ConfirmWithMessage
    \/ IoError \/ EmptyDefault \/ EmptyRetry \/ ParseError \/ Rejected \/ Accepted

Spec == Init /\ [][Next]_vars

-----------------------------------------------------------------------------
(* Vocabulary of the properties *)

\* This step is one read_line call of the loop.
ReadStep == pc = "loop" /\ Len(reads') = Len(reads) + 1

\* The line source's result in this step, and the line after trimming.
NewResult == reads'[Len(reads')].res
NewTrimmed == trim(NewResult.val[1])

\* What the read_line call of this step writes: the prompt, when there is one.
PromptWrite == IF rendered = None THEN <<>> ELSE <<rendered[1]>>

\* A message printed as one line.
OneLine(m) == <<m \o <<"\n">>>>

\* From the head of the loop the only step is a read_line call.
LoopReads == pc = "loop" => Len(reads') = Len(reads) + 1

\* Nothing runs after try_get_with has returned.
DoneStays == pc = "done" => UNCHANGED vars

\* C1: with a default D configured, a read whose line is empty after trimming
\* ends the resolution with Ok(D) in that very step, whatever was read before;
\* parse is not called and the validator is not run, whether or not the
\* validator would accept D.
C1_DefaultOnEmpty ==
    [][ (/\ ReadStep
         /\ self.default # None
         /\ NewResult.ok
         /\ NewTrimmed = <<>>)
        => (/\ pc' = "done"
            /\ result' = Some(Ok(self.default[1]))
            /\ parses' = parses
            /\ runs' = runs
            /\ out' = out \o PromptWrite) ]_vars

\* C1 witness: after a parse failure and a rejected value, an empty line made
\* the resolution return a default that the configured validator rejects.
C1_Witness ==
    /\ pc = "done"
    /\ T = "u32"
    /\ self.default = Some(200)
    /\ self.validator = Some("lt120")
    /\ ~Validator_run("lt120", 200)
    /\ Len(reads) = 3
    /\ Len(parses) = 2
    /\ Len(runs) = 1
    /\ reads[3].res.ok /\ trim(reads[3].res.val[1]) = <<>>
    /\ result = Some(Ok(200))

\* The type-error message the caller is to see.
ExpectedTypeMessage ==
    IF "type_error_message" \in called THEN self.type_message[1]
    ELSE <<"Error: invalid input">>

\* C2: a read whose trimmed line is not empty and does not parse into T does
\* not end the resolution: the step prints the type-error message once (the
\* caller's, or "Error: invalid input" when type_error_message was never
\* called) and control is back at the read_line call, whose next step reads.
C2_ParseFailureRetries ==
    [][ /\ LoopReads
        /\ (/\ ReadStep
            /\ NewResult.ok
            /\ NewTrimmed # <<>>
            /\ ~parse(T, NewTrimmed).ok)
           => (/\ pc' = "loop"
               /\ result' = None
               /\ outcome' = Pending
               /\ out' = out \o PromptWrite \o OneLine(ExpectedTypeMessage)) ]_vars

\* C2 witness: two parse failures in a row, the first answered by the generic
\* message, each followed by another read.
C2_Witness ==
    /\ T = "u32"
    /\ "type_error_message" \notin called
    /\ rendered = None
    /\ Len(reads) = 3
    /\ reads[1].ev = [kind |-> "line", text |-> <<"a","b","c","\n">>]
    /\ reads[2].ev = [kind |-> "line", text |-> <<"a","b","c","\n">>]
    /\ out = OneLine(<<"Error: invalid input">>) \o OneLine(<<"Error: invalid input">>)

\* C3: a read whose line parses to a value V that the configured validator
\* rejects, with a validator-error message M set by the caller, prints M once
\* as it is, does not return V, and control is back at the read_line call.
C3_RejectionRetries ==
    [][ /\ LoopReads
        /\ (/\ ReadStep
            /\ NewResult.ok
            /\ NewTrimmed # <<>>
            /\ parse(T, NewTrimmed).ok
            /\ self.validator # None
            /\ ~Validator_run(self.validator[1], parse(T, NewTrimmed).val[1])
            /\ "validator_error_message" \in called)
           => (/\ pc' = "loop"
               /\ result' = None
               /\ outcome' = Pending
               /\ \E m \in ValidatorMessages :
                    /\ self.validator_message = Some(m)
                    /\ out' = out \o PromptWrite \o OneLine(m)) ]_vars

\* C3 witness: 200 was rejected by x < 120, the caller's message was printed
\* once, and the next read took place.
C3_Witness ==
    /\ T = "u32"
    /\ self.validator = Some("lt120")
    /\ "validator_error_message" \in called
    /\ rendered = None
    /\ Len(reads) = 2
    /\ reads[1].ev = [kind |-> "line", text |-> <<"2","0","0","\n">>]
    /\ out = OneLine(<<"I asked a simple question...">>)
    /\ reads[2].ev = [kind |-> "line", text |-> <<"4","5","\n">>]
    /\ result = Some(Ok(45))

\* The line parsed in this step is a value the configured validator rejects.
NewRejected ==
    /\ ReadStep
    /\ NewResult.ok
    /\ NewTrimmed # <<>>
    /\ parse(T, NewTrimmed).ok
    /\ self.validator # None
    /\ ~Validator_run(self.validator[1], parse(T, NewTrimmed).val[1])

\* C4 as stated: when validator_error_message was never called, a rejection
\* prints nothing: after the read the output is as read_line left it.
C4_SilentRetry ==
    [][ (NewRejected /\ "validator_error_message" \notin called)
        => out' = out \o PromptWrite ]_vars

\* C4 amended: when validator_error_message was never called (as in confirm),
\* a rejection prints the constructor's message "Error: does not pass
\* validation" once as a line and goes back to the read_line call; every
\* read_line call first writes the prompt, so the prompt is the next output.
C4_DefaultMessageOnRejection ==
    [][ /\ (NewRejected /\ "validator_error_message" \notin called)
           => (/\ pc' = "loop"
               /\ out' = out \o PromptWrite
                             \o OneLine(<<"Error: does not pass validation">>))
        /\ (ReadStep /\ reads'[Len(reads')].ev.kind # "write_err")
           => SubSeq(out', 1, Len(out) + Len(PromptWrite)) = out \o PromptWrite ]_vars

\* C4 witness: confirm read "maybe", printed the constructor's message after
\* the prompt and is back at the read_line call.
C4_Witness ==
    /\ pc = "loop"
    /\ call = "map" /\ mapfn = "is_yes"
    /\ \E text \in PromptTexts :
         /\ self = confirm_input(text)
         /\ out = <<text \o <<" [y/N] ">>>>
                    \o OneLine(<<"Error: does not pass validation">>)
    /\ "validator_error_message" \notin called
    /\ Len(reads) = 1
    /\ reads[1].ev = [kind |-> "line", text |-> <<"m","a","y","b","e","\n">>]

\* C5: a read whose trimmed line is not empty and parses to V, with no
\* validator configured or a validator that accepts V, ends the resolution
\* in that step with Ok(V); nothing but the prompt is written, and nothing is
\* read afterwards.
C5_AcceptedReturns ==
    [][ /\ DoneStays
        /\ (/\ ReadStep
            /\ NewResult.ok
            /\ NewTrimmed # <<>>
            /\ parse(T, NewTrimmed).ok
            /\ (self.validator = None
                \/ Validator_run(self.validator[1], parse(T, NewTrimmed).val[1])))
           => (/\ pc' = "done"
               /\ result' = Some(Ok(parse(T, NewTrimmed).val[1]))
               /\ out' = out \o PromptWrite) ]_vars

\* C5 witness: after a rejected 200, the line "45" passed x < 120 and was
\* returned as 45 with nothing printed for it.
C5_Witness ==
    /\ pc = "done"
    /\ T = "u32"
    /\ self.validator = Some("lt120")
    /\ self.default = None
    /\ rendered = None
    /\ "validator_error_message" \notin called
    /\ Len(reads) = 2
    /\ reads[2].ev = [kind |-> "line", text |-> <<"4","5","\n">>]
    /\ result = Some(Ok(45))
    /\ Len(out) = 1

\* C6: a read_line call that fails ends the resolution in that step with that
\* error: no value is returned (no default either), nothing is parsed or
\* validated, no message is printed, and nothing is read afterwards.
C6_IoErrorAborts ==
    [][ /\ DoneStays
        /\ (ReadStep /\ ~NewResult.ok)
           => (/\ pc' = "done"
               /\ result' = Some(Err(NewResult.err))
               /\ outcome'.kind \in {"err", "panic"}
               /\ outcome'.val = <<>>
               /\ outcome'.err = NewResult.err
               /\ parses' = parses /\ runs' = runs /\ maps' = maps
               /\ out' = IF reads'[Len(reads')].ev.kind = "write_err" THEN out
                         ELSE out \o PromptWrite) ]_vars

\* C6 witness: with a default configured, a parse failure and a rejection
\* were followed by a failed read, which ended the resolution with the error.
C6_Witness ==
    /\ pc = "done"
    /\ T = "u32"
    /\ self.default # None
    /\ self.validator = Some("lt120")
    /\ Len(reads) = 3
    /\ reads[1].ev = [kind |-> "line", text |-> <<"a","b","c","\n">>]
    /\ reads[2].ev = [kind |-> "line", text |-> <<"2","0","0","\n">>]
    /\ reads[3].ev.kind = "read_err"
    /\ result = Some(Err("read_err"))
    /\ call = "try_get"
    /\ outcome = [kind |-> "err", val |-> <<>>, err |-> "read_err"]

\* C7 as stated: a read that meets the end of input is the last one, and the
\* resolution has ended with a failure, with or without a default.
C7_ClosedInputIsFatal ==
    \A i \in 1..Len(reads) :
        reads[i].ev.kind = "eof"
        => (/\ i = Len(reads)
            /\ pc = "done"
            /\ result # None
            /\ ~result[1].ok)

\* Every letter case of y / yes and of n / no.
YesWords ==
    {<<a>> : a \in {"y", "Y"}}
    \cup {<<a, b, c>> : a \in {"y", "Y"}, b \in {"e", "E"}, c \in {"s", "S"}}
NoWords ==
    {<<a>> : a \in {"n", "N"}} \cup {<<a, b>> : a \in {"n", "N"}, b \in {"o", "O"}}

\* The resolution in progress is the one confirm or confirm_with_message runs.
ConfirmRun ==
    /\ pc # "build"
    /\ call = "map"
    /\ mapfn = "is_yes"
    /\ \E text \in PromptTexts :
          \/ self = confirm_input(text)
          \/ \E m \in ValidatorMessages : self = confirm_with_message_input(text, m)

\* C8: in confirm and confirm_with_message, a line that after trimming is
\* y or yes in any letter case returns true; n or no in any letter case, or
\* an empty line, returns false; any other line returns nothing and leaves
\* control at the read_line call, which writes the prompt and reads again.
C8_ConfirmAnswers ==
    [][ /\ LoopReads
        /\ (ConfirmRun /\ ReadStep /\ NewResult.ok)
           => (/\ rendered # None
               /\ IF NewTrimmed \in YesWords
                  THEN pc' = "done"
                       /\ outcome' = [kind |-> "value", val |-> <<TRUE>>, err |-> "none"]
                  ELSE IF NewTrimmed \in NoWords \/ NewTrimmed = <<>>
                  THEN pc' = "done"
                       /\ outcome' = [kind |-> "value", val |-> <<FALSE>>, err |-> "none"]
                  ELSE pc' = "loop" /\ outcome' = Pending) ]_vars

\* C8 witness: confirm_with_message read "maybe", asked again, read " YES "
\* and returned true.
C8_Witness ==
    /\ pc = "done"
    /\ \E text \in PromptTexts, m \in ValidatorMessages :
          self = confirm_with_message_input(text, m)
    /\ call = "map" /\ mapfn = "is_yes"
    /\ Len(reads) = 2
    /\ reads[1].ev = [kind |-> "line", text |-> <<"m","a","y","b","e","\n">>]
    /\ reads[2].ev = [kind |-> "line", text |-> <<" ","Y","E","S"," ","\n">>]
    /\ outcome = [kind |-> "value", val |-> <<TRUE>>, err |-> "none"]

\* The text a piece of the prompt contributes: nothing when it is not set.
Piece(o) == IF o = None THEN <<>> ELSE o[1]

\* C9 as stated: the rendered prompt is prefix + prompt + suffix with each
\* piece optional on its own, so every piece that was set is in it.
C9_EveryPieceRendered ==
    pc # "build"
    => LET whole == Piece(self.prefix) \o Piece(self.prompt) \o Piece(self.suffix) IN
       \/ rendered = Some(whole)
       \/ rendered = None /\ whole = <<>>

\* C10 as stated: map calls the transform only on a successful resolution,
\* and a failed resolution's error is map's outcome, unchanged.
C10_MapPropagatesFailure ==
    call = "map"
    => IF pc # "done" THEN maps = <<>> /\ outcome = Pending
       ELSE IF result[1].ok
       THEN /\ maps = <<result[1].val[1]>>
            /\ outcome = [kind |-> "value",
                          val |-> <<apply_map(mapfn, result[1].val[1])>>,
                          err |-> "none"]
       ELSE /\ maps = <<>>
            /\ outcome = [kind |-> "err", val |-> <<>>, err |-> result[1].err]

\* C10 amended: map calls the transform only on a successful resolution, on
\* its value; on a failed resolution the transform is not called and map
\* returns nothing: get unwraps the result, so map panics with that error.
C10_MapPanicsOnFailure ==
    call = "map"
    => IF pc # "done" THEN maps = <<>> /\ outcome = Pending
       ELSE IF result[1].ok
       THEN /\ maps = <<result[1].val[1]>>
            /\ outcome = [kind |-> "value",
                          val |-> <<apply_map(mapfn, result[1].val[1])>>,
                          err |-> "none"]
       ELSE /\ maps = <<>>
            /\ outcome = [kind |-> "panic", val |-> <<>>, err |-> result[1].err]

\* C10 witness: a map call whose second read failed: the transform was not
\* called and map panicked with the read error.
C10_Witness ==
    /\ pc = "done"
    /\ call = "map"
    /\ Len(reads) = 2
    /\ result = Some(Err("read_err"))
    /\ maps = <<>>
    /\ outcome = [kind |-> "panic", val |-> <<>>, err |-> "read_err"]

\* C11: without a default, a read whose line is empty after trimming (only
\* whitespace included) is no error: the step prints nothing, parses and
\* validates nothing, returns nothing and leaves control at the read_line
\* call with the same rendered prompt, however many empty lines came before.
C11_EmptyWithoutDefaultRetries ==
    [][ /\ LoopReads
        /\ (/\ ReadStep
            /\ self.default = None
            /\ NewResult.ok
            /\ NewTrimmed = <<>>)
           => (/\ pc' = "loop"
               /\ result' = None
               /\ outcome' = Pending
               /\ rendered' = rendered
               /\ parses' = parses
               /\ runs' = runs
               /\ out' = out \o PromptWrite) ]_vars

\* C11 witness: three whitespace-only lines in a row, each answered by the
\* same prompt and nothing else, and control is at the read_line call.
C11_Witness ==
    /\ pc = "loop"
    /\ T = "String"
    /\ self.default = None
    /\ rendered # None
    /\ Len(reads) = 3
    /\ \A i \in 1..3 : reads[i].ev = [kind |-> "line", text |-> <<" ", "\n">>]
    /\ out = <<rendered[1], rendered[1], rendered[1]>>
    /\ result = None

\* The value a line gives when it ends the resolution, as an Option: the
\* default for an empty line, the parsed value when it parses and no
\* validator rejects it, None for a line that does not end the resolution.
TerminalValue(line) ==
    LET raw == trim(line) IN
    IF raw = <<>> THEN self.default
    ELSE IF ~parse(T, raw).ok THEN None
    ELSE IF self.validator # None
            /\ ~Validator_run(self.validator[1], parse(T, raw).val[1]) THEN None
    ELSE parse(T, raw).val

\* What a line that does not end the resolution makes the loop print.
LineMessage(line) ==
    LET raw == trim(line) IN
    IF raw = <<>> THEN <<>>
    ELSE IF ~parse(T, raw).ok THEN OneLine(self.type_message[1])
    ELSE OneLine(self.validator_message[1])

RECURSIVE ScriptOutput(_)
\* The output of a script of lines none of which ends the resolution.
ScriptOutput(lines) ==
    IF lines = <<>> THEN <<>>
    ELSE PromptWrite \o LineMessage(Head(lines)) \o ScriptOutput(Tail(lines))

\* The lines read so far, when no read_line call failed.
LinesRead == [i \in 1..Len(reads) |-> reads[i].res.val[1]]

\* C12: when no read_line call fails, the resolution is decided by the first
\* line that ends it: every line before it printed its own message, in order
\* (type-error message for an unparsable line, validator-error message for a
\* rejected value, nothing for an empty one), the resolution returned that
\* line's value, and it was the last line read.
C12_FirstTerminalLineDecides ==
    (pc # "build" /\ \A i \in 1..Len(reads) : reads[i].res.ok)
    => LET n == Len(reads)
           early == IF pc = "done" THEN n - 1 ELSE n IN
       /\ \A i \in 1..early : TerminalValue(LinesRead[i]) = None
       /\ pc = "done"
          => /\ n > 0
             /\ TerminalValue(LinesRead[n]) # None
             /\ result = Some(Ok(TerminalValue(LinesRead[n])[1]))
             /\ out = ScriptOutput(SubSeq(LinesRead, 1, n - 1)) \o PromptWrite
       /\ pc = "loop"
          => /\ result = None
             /\ out = ScriptOutput(LinesRead)

\* C12 witness: x < 120 with the script "abc", "200", "45": the type-error
\* message, then the validator-error message, then 45 is returned.
C12_Witness ==
    /\ pc = "done"
    /\ T = "u32"
    /\ self.validator = Some("lt120")
    /\ self.default = None
    /\ rendered = Some(<<"Enter your guess: ">>)
    /\ called = {"prompt", "matches", "type_error_message", "validator_error_message"}
    /\ Len(reads) = 3
    /\ \A i \in 1..3 : reads[i].res.ok
    /\ LinesRead = << <<"a","b","c","\n">>, <<"2","0","0","\n">>, <<"4","5","\n">> >>
    /\ out = << <<"Enter your guess: ">>, <<"Please enter a valid guess!", "\n">>,
                <<"Enter your guess: ">>, <<"I asked a simple question...", "\n">>,
                <<"Enter your guess: ">> >>
    /\ result = Some(Ok(45))

\* C13: within one resolution the prompt is rendered once, before the loop:
\* the rendered prompt does not change afterwards, and the argument of every
\* read_line call, the first and every retry after whatever kind of failed
\* attempt, is that same rendered prompt.
C13_SamePromptEveryRead ==
    [][ /\ pc # "build" => rendered' = rendered
        /\ ReadStep
           => /\ reads'[Len(reads')].prompt = rendered
              /\ \A i \in 1..Len(reads) : reads[i].prompt = reads'[Len(reads')].prompt ]_vars

\* C13 witness: an empty line, an unparsable line and a rejected value were
\* each followed by a read with the same prefix + prompt + suffix.
C13_Witness ==
    /\ T = "u32"
    /\ self.validator = Some("lt120")
    /\ Len(reads) = 3
    /\ reads[1].ev = [kind |-> "line", text |-> <<"\n">>]
    /\ reads[2].ev = [kind |-> "line", text |-> <<"a","b","c","\n">>]
    /\ reads[3].ev = [kind |-> "line", text |-> <<"2","0","0","\n">>]
    /\ pc = "loop"
    /\ \A i \in 1..3 :
          reads[i].prompt = Some(<<"> ", "Enter your guess: ", " [y/N] ">>)

\* Attempt n read a line that did not parse or that the validator rejected.
FailedAttempt(n) ==
    /\ reads[n].res.ok
    /\ LET raw == trim(reads[n].res.val[1]) IN
       /\ raw # <<>>
       /\ \/ ~parse(T, raw).ok
          \/ /\ self.validator # None
             /\ ~Validator_run(self.validator[1], parse(T, raw).val[1])

\* C14: the events of a resolution are ordered: attempts follow each other in
\* order; a read is directly preceded by its own prompt write when there is a
\* prompt, and a prompt write is followed by nothing but its own read; a
\* message directly follows the read of an attempt that failed to parse or
\* was rejected, is the only message of that attempt, is followed by nothing
\* but the prompt and read of the next attempt, and never belongs to the
\* attempt that ended the resolution; so none comes before the first read.
C14_EventOrder ==
    /\ \A k \in 1..Len(trace) - 1 :
          /\ trace[k].n <= trace[k + 1].n
          /\ trace[k].e = "prompt"
             => trace[k + 1] = [e |-> "read", n |-> trace[k].n]
          /\ trace[k].e = "message"
             => /\ trace[k + 1].n = trace[k].n + 1
                /\ trace[k + 1].e = IF rendered # None THEN "prompt" ELSE "read"
    /\ \A k \in 1..Len(trace) :
          /\ trace[k].n \in 1..Len(reads)
          /\ (trace[k].e = "read" /\ rendered # None)
             => (k > 1 /\ trace[k - 1] = [e |-> "prompt", n |-> trace[k].n])
          /\ trace[k].e = "message"
             => /\ k > 1
                /\ trace[k - 1] = [e |-> "read", n |-> trace[k].n]
                /\ FailedAttempt(trace[k].n)
                /\ pc = "done" => trace[k].n < Len(reads)

\* C14 witness: prompt, read, type-error message, prompt, read,
\* validator-error message, prompt, read, and the value is returned.
C14_Witness ==
    /\ pc = "done"
    /\ result # None /\ result[1].ok
    /\ trace = << [e |-> "prompt", n |-> 1], [e |-> "read", n |-> 1],
                  [e |-> "message", n |-> 1],
                  [e |-> "prompt", n |-> 2], [e |-> "read", n |-> 2],
                  [e |-> "message", n |-> 2],
                  [e |-> "prompt", n |-> 3], [e |-> "read", n |-> 3] >>
    /\ ~parse(T, trim(reads[1].res.val[1])).ok
    /\ parse(T, trim(reads[2].res.val[1])).ok

\* C15: whenever the resolution returns a value, the value is the configured
\* default and the last line read was empty after trimming, or it is the
\* parse of the last line read, which was not empty, parsed, and satisfied
\* the validator if one is configured; no earlier line and no unparsable or
\* rejected line gives the value.
C15_ReturnedValueOrigin ==
    (pc = "done" /\ result[1].ok)
    => /\ Len(reads) > 0
       /\ reads[Len(reads)].res.ok
       /\ LET raw == trim(reads[Len(reads)].res.val[1])
              v == result[1].val[1] IN
          IF raw = <<>>
          THEN self.default = Some(v)
          ELSE /\ parse(T, raw).ok
               /\ parse(T, raw).val[1] = v
               /\ self.validator # None => Validator_run(self.validator[1], v)

\* C15 witness: with the yes/no validator, "maybe" was rejected and the
\* value returned is the trimmed second line, "No".
C15_Witness ==
    /\ pc = "done"
    /\ T = "String"
    /\ self.validator = Some("yes_no")
    /\ Len(reads) = 2
    /\ reads[1].ev = [kind |-> "line", text |-> <<"m","a","y","b","e","\n">>]
    /\ reads[2].ev = [kind |-> "line", text |-> <<"N","o","\n">>]
    /\ result = Some(Ok(<<"N","o">>))

\* The builder methods, the field each one is to set, and the arguments tried.
BuilderNames ==
    {"prompt", "prefix", "suffix", "default", "matches", "type_error_message",
     "validator_error_message"}

Fields == DOMAIN Input_new

FieldOf(n) ==
    CASE n = "prompt" -> "prompt"
      [] n = "prefix" -> "prefix"
      [] n = "suffix" -> "suffix"
      [] n = "default" -> "default"
      [] n = "matches" -> "validator"
      [] n = "type_error_message" -> "type_message"
      [] n = "validator_error_message" -> "validator_message"

\* Two texts that differ from each other and from the constructor's messages.
OtherTexts == {<<"first">>, <<"second">>}

Args(n) ==
    CASE n = "default" -> Defaults(T) \cup (IF T = "u32" THEN {7} ELSE {<<"y">>})
      [] n = "matches" -> Validators(T)
      [] OTHER -> OtherTexts

Apply(n, in, a) ==
    CASE n = "prompt" -> Input_prompt(in, a)
      [] n = "prefix" -> Input_prefix(in, a)
      [] n = "suffix" -> Input_suffix(in, a)
      [] n = "default" -> Input_default(in, a)
      [] n = "matches" -> Input_matches(in, a)
      [] n = "type_error_message" -> Input_type_error_message(in, a)
      [] n = "validator_error_message" -> Input_validator_error_message(in, a)

\* This step is a builder call.
BuildStep == pc = "build" /\ pc' = "build"

\* C16: a builder call sets the field of its method to its argument and
\* leaves every other field as it was, reads nothing, writes nothing and
\* returns nothing but the Input; and from any Input reached, two setters of
\* different fields give the same Input, hence the same rendered prompt, in
\* either order.
C16_BuilderFrame ==
    [][ BuildStep
        => /\ lastcall'.name \in BuilderNames
           /\ called' = called \cup {lastcall'.name}
           /\ self'[FieldOf(lastcall'.name)] = lastcall'.arg
           /\ \A f \in Fields \ {FieldOf(lastcall'.name)} : self'[f] = self[f]
           /\ UNCHANGED <<out, reads, trace, parses, runs, maps, result, outcome,
                          rendered, call>>
           /\ \A n1 \in BuilderNames, n2 \in BuilderNames :
                 n1 # n2
                 => \A a1 \in Args(n1), a2 \in Args(n2) :
                       /\ Apply(n2, Apply(n1, self, a1), a2)
                            = Apply(n1, Apply(n2, self, a2), a1)
                       /\ render(Apply(n2, Apply(n1, self, a1), a2))
                            = render(Apply(n1, Apply(n2, self, a2), a1)) ]_vars

\* C16 witness: all seven builder methods have been called, the suffix last,
\* and nothing was read or written.
C16_Witness ==
    /\ pc = "build"
    /\ called = BuilderNames
    /\ lastcall.name = "suffix"
    /\ lastcall.before.suffix = None
    /\ self.suffix = Some(<<" [y/N] ">>)
    /\ \A f \in Fields : self[f] # None
    /\ out = <<>> /\ reads = <<>>

\* Values to try a validator on.
SampleValues == IF T = "u32" THEN {45, 200, 7} ELSE {<<"y">>, <<"m","a","y","b","e">>}

\* C19: a builder method called again keeps only the last call's value: the
\* field holds the last argument whatever it held before, so a second
\* matches replaces the validator (a value is rejected exactly when the last
\* predicate rejects it, whatever the first one said), and a second default,
\* prompt, prefix, suffix or message call gives the Input the last call alone
\* would give.
C19_LastCallWins ==
    (pc = "build" /\ lastcall.name # "none")
    => /\ self[FieldOf(lastcall.name)] = lastcall.arg
       /\ lastcall.name = "matches"
          => \A v \in SampleValues :
                rejects(self, v) <=> ~Validator_run(lastcall.arg[1], v)
       /\ \A n \in BuilderNames : \A a \in Args(n), b \in Args(n) :
             /\ Apply(n, Apply(n, self, a), b) = Apply(n, self, b)
             /\ Apply(n, Apply(n, self, a), b)[FieldOf(n)] = Some(b)

\* C19 witness: matches(x < 120) was followed by matches(x % 2 == 0): the
\* validator is the second one, and 200, which only the first rejects, is
\* not rejected.
C19_Witness ==
    /\ pc = "build"
    /\ T = "u32"
    /\ lastcall.name = "matches"
    /\ lastcall.again
    /\ lastcall.before.validator = Some("lt120")
    /\ lastcall.arg = Some("even")
    /\ self.validator = Some("even")
    /\ rejects(lastcall.before, 200)
    /\ ~rejects(self, 200)

\* One iteration of the loop, whatever it reads.
LoopStep == IoError \/ EmptyDefault \/ EmptyRetry \/ ParseError \/ Rejected \/ Accepted

\* C17: the resolution has ended exactly when the last read_line call failed
\* or read a line that ends it (empty with a default configured, or parsed
\* and not rejected), and then it ended with that error or that value; as
\* long as only other lines were read it has returned nothing and the next
\* iteration can run: no number of retries stops it (the model alone stops
\* after MaxReads reads).
C17_TerminationOnlyByValueOrError ==
    pc # "build"
    => LET n == Len(reads) IN
       /\ \A i \in 1..n - 1 :
             reads[i].res.ok /\ TerminalValue(reads[i].res.val[1]) = None
       /\ pc = "done"
          <=> /\ n > 0
              /\ \/ ~reads[n].res.ok
                 \/ TerminalValue(reads[n].res.val[1]) # None
       /\ pc = "done"
          => /\ result # None
             /\ IF reads[n].res.ok
                THEN result[1] = Ok(TerminalValue(reads[n].res.val[1])[1])
                ELSE result[1] = Err(reads[n].res.err)
       /\ pc = "loop"
          => /\ result = None
             /\ outcome = Pending
             /\ n < MaxReads => ENABLED LoopStep

\* C17 witness: two lines that do not end the resolution, then a failed read
\* ended it with the error.
C17_Witness ==
    /\ pc = "done"
    /\ Len(reads) = 3
    /\ reads[1].res.ok /\ reads[2].res.ok
    /\ reads[3].ev.kind = "read_err"
    /\ result = Some(Err("read_err"))
    /\ self.default = None

\* C18: every iteration makes one read_line call; parse is called once, and
\* only on a line that is not empty after trimming; the validator is run once,
\* and only on the value of a line that parsed, never for an empty line, an
\* unparsable line or the default; at most one message is printed.
C18_OneRunPerLine ==
    [][ /\ LoopReads
        /\ ReadStep
           => LET parsed == NewResult.ok /\ NewTrimmed # <<>> IN
              /\ Len(reads') = Len(reads) + 1
              /\ parses' = parses \o (IF parsed THEN <<NewTrimmed>> ELSE <<>>)
              /\ runs' = runs \o (IF /\ parsed
                                     /\ parse(T, NewTrimmed).ok
                                     /\ self.validator # None
                                  THEN <<parse(T, NewTrimmed).val[1]>> ELSE <<>>)
              /\ Len(out') <= Len(out) + Len(PromptWrite) + 1
              /\ Len(trace') <= Len(trace) + 3 ]_vars

\* C18 witness: an empty line, a rejected 200 and an accepted 45: parse was
\* called on the two lines that were not empty and the validator run once on
\* each parsed value.
C18_Witness ==
    /\ pc = "done"
    /\ T = "u32"
    /\ self.validator = Some("lt120")
    /\ self.default = None
    /\ Len(reads) = 3
    /\ reads[1].ev = [kind |-> "line", text |-> <<"\n">>]
    /\ parses = << <<"2","0","0">>, <<"4","5">> >>
    /\ runs = <<200, 45>>
    /\ result = Some(Ok(45))

=============================================================================
